---- MODULE Spec2Model ----
(***************************************************************************)
(* Malla curricular: model of src/script.js.                               *)
(*                                                                         *)
(* A text (a JavaScript string) is a sequence of one-character strings,    *)
(* so that JSON.stringify, JSON.parse and String.prototype.split are       *)
(* computed character by character.  An optional text (the result of       *)
(* localStorage.getItem, a data-* attribute) is a record                   *)
(* [present, txt].                                                         *)
(***************************************************************************)
EXTENDS Integers, Sequences, FiniteSets, TLC

\* ------------------------------------------------------------------ bounds
\* longest list of identifiers found in localStorage when the page opens
MaxStored == 2
\* longest list handed to guardarRamosAprobados in the store-only specification
MaxSaved == 2

\* ------------------------------------------------------------ optional text
Some(t) == [present |-> TRUE, txt |-> t]
None == [present |-> FALSE, txt |-> <<>>]

\* JavaScript truthiness of a value that is a string, null or undefined
Truthy(o) == o.present /\ Len(o.txt) > 0

\* --------------------------------------------------------------- characters
QUOTE == "\""
BACKSLASH == "\\"
COMMA == ","

\* Elements of a list, as a set
Elems(s) == {s[k] : k \in 1..Len(s)}

\* a membership test written with indexOf(x) > 0: index 0 is missed
IncludesIndexOf(arr, x) == \E k \in 2..Len(arr) : arr[k] = x

\* Array.prototype.includes on an array of strings
Includes(arr, x) == \E k \in 1..Len(arr) : arr[k] = x

\* every() called on an empty array: the requirements always count as met
RequisitosCumplidosSiempre(requisitos, aprobados) == TRUE

\* line 51: requisitos.every(reqId => aprobados.includes(reqId))
RequisitosCumplidos(requisitos, aprobados) ==
  \A k \in 1..Len(requisitos) : Includes(aprobados, requisitos[k])

\* the missing list without the filter: every requirement is reported
FaltantesAll(requisitos, aprobados) == requisitos

\* line 80: requisitos.filter(reqId => !aprobados.includes(reqId))
Faltantes(requisitos, aprobados) ==
  SelectSeq(requisitos, LAMBDA reqId : ~Includes(aprobados, reqId))

\* the filter of line 97 with === where !== stands
SinRamoKeep(aprobados, ramoId) == SelectSeq(aprobados, LAMBDA id : id = ramoId)

\* line 97: aprobados.filter(id => id !== ramoId)
SinRamo(aprobados, ramoId) == SelectSeq(aprobados, LAMBDA id : id # ramoId)

\* String.prototype.split(',') : cur is the piece being read
RECURSIVE SplitFrom(_, _, _)
SplitFrom(t, p, cur) ==
  IF p > Len(t) THEN <<cur>>
  ELSE IF t[p] = COMMA THEN <<cur>> \o SplitFrom(t, p + 1, <<>>)
       ELSE SplitFrom(t, p + 1, Append(cur, t[p]))

Split(t) == SplitFrom(t, 1, <<>>)

\* --------------------------------------------------------------------- JSON
\* a string written between quotes as it is, nothing escaped
QuoteCharsRaw(t) == t

\* JSON.stringify of one string: quotes and backslashes are escaped
RECURSIVE QuoteChars(_)
QuoteChars(t) ==
  IF t = <<>> THEN <<>>
  ELSE IF Head(t) \in {QUOTE, BACKSLASH}
       THEN <<BACKSLASH, Head(t)>> \o QuoteChars(Tail(t))
       ELSE <<Head(t)>> \o QuoteChars(Tail(t))

JSONString(t) == <<QUOTE>> \o QuoteChars(t) \o <<QUOTE>>

RECURSIVE JSONJoin(_)
JSONJoin(arr) ==
  IF arr = <<>> THEN <<>>
  ELSE IF Len(arr) = 1 THEN JSONString(arr[1])
       ELSE JSONString(arr[1]) \o <<COMMA>> \o JSONJoin(Tail(arr))

\* JSON.stringify of an array of strings
JSONstringify(arr) == <<"[">> \o JSONJoin(arr) \o <<"]">>

\* Results of JSON.parse: an array of strings, the value null, or a SyntaxError
JArray(a) == [err |-> FALSE, kind |-> "array", arr |-> a]
JNull == [err |-> FALSE, kind |-> "null", arr |-> <<>>]
JSyntaxError == [err |-> TRUE, kind |-> "none", arr |-> <<>>]

\* the characters of a JSON string from position p (after the opening quote)
RECURSIVE ParseChars(_, _, _)
ParseChars(t, p, acc) ==
  IF p > Len(t) THEN [ok |-> FALSE, val |-> <<>>, next |-> p]
  ELSE IF t[p] = QUOTE THEN [ok |-> TRUE, val |-> acc, next |-> p + 1]
  ELSE IF t[p] = BACKSLASH
       THEN IF p + 1 <= Len(t) /\ t[p + 1] \in {QUOTE, BACKSLASH}
            THEN ParseChars(t, p + 2, Append(acc, t[p + 1]))
            ELSE [ok |-> FALSE, val |-> <<>>, next |-> p]
       ELSE ParseChars(t, p + 1, Append(acc, t[p]))

\* what follows the string s that ends before position s.next
RECURSIVE ParseElems(_, _, _)
AfterString(t, s, acc) ==
  IF ~s.ok \/ s.next > Len(t) THEN JSyntaxError
  ELSE IF t[s.next] = "]"
       THEN IF s.next = Len(t) THEN JArray(Append(acc, s.val)) ELSE JSyntaxError
       ELSE IF t[s.next] = COMMA THEN ParseElems(t, s.next + 1, Append(acc, s.val))
            ELSE JSyntaxError

\* the elements of a JSON array from position p (where a string must start);
\* the string read and the elements so far are bound as values
ParseElems(t, p, acc) ==
  IF p > Len(t) \/ t[p] # QUOTE THEN JSyntaxError
  ELSE CHOOSE res \in {AfterString(t, s, a) :
                         s \in {ParseChars(t, p + 1, <<>>)}, a \in {acc}} : TRUE

\* JSON.parse on the texts of this model: arrays of strings, null, or garbage
JSONparse(t) ==
  IF t = <<"n", "u", "l", "l">> THEN JNull
  ELSE IF Len(t) >= 2 /\ t[1] = "["
       THEN IF t[2] = "]" THEN (IF Len(t) = 2 THEN JArray(<<>>) ELSE JSyntaxError)
            ELSE ParseElems(t, 2, <<>>)
       ELSE JSyntaxError

\* ------------------------------------------------------------ the catalog
\* identifiers (the id attribute of the .ramo elements) and their labels
A == <<"A">>
B == <<"B">>
C == <<"C">>
D == <<"D">>
E == <<"E">>
F == <<"F">>
\* an identifier that no element of the page carries
X == <<"X">>

\* a .ramo element: id, textContent and the data-requisitos attribute
Ramo(id, texto, req) == [id |-> id, texto |-> texto, requisitos |-> req]

\* the catalog of the scenario: A:[], B:[A], C:[A,B]
CatalogoEscenario ==
  << Ramo(A, <<"a">>, None),
     Ramo(B, <<"b">>, Some(<<"A">>)),
     Ramo(C, <<"c">>, Some(<<"A", ",", "B">>)) >>

\* a catalog with an empty attribute and an unknown requirement (D needs X)
CatalogoCompleto ==
  << Ramo(A, <<"a">>, Some(<<>>)),
     Ramo(B, <<"b">>, Some(<<"A">>)),
     Ramo(C, <<"c">>, Some(<<"A", ",", "B">>)),
     Ramo(D, <<"d">>, Some(<<"X">>)) >>

\* a catalog with a cycle (E needs F, F needs E)
CatalogoCiclo ==
  << Ramo(A, <<"a">>, None),
     Ramo(E, <<"e">>, Some(<<"F">>)),
     Ramo(F, <<"f">>, Some(<<"E">>)) >>

Catalogos == {CatalogoEscenario, CatalogoCompleto, CatalogoCiclo}

\* identifiers that a stored list may carry when the page opens
StoredIds == {A, D, E, X}

\* lists of at most n elements of S
ListsUpTo(S, n) == UNION {[1..k -> S] : k \in 0..n}

\* texts that JSON.parse rejects
Malformed ==
  { <<"[", QUOTE, "A">>,
    <<"[", QUOTE, "A", QUOTE, COMMA, "]">>,
    <<"A">> }

\* values the key 'ramosAprobados' may hold that this page did not write
StoredValues ==
  {None, Some(<<>>), Some(<<"n", "u", "l", "l">>)}
    \cup {Some(m) : m \in Malformed}
    \cup {Some(JSONstringify(l)) : l \in ListsUpTo(StoredIds, MaxStored)}

\* -------------------------------------------------------------------- state
VARIABLES
  ramos,         \* the .ramo elements of the page, in document order
  clases,        \* clases[k] : classList of ramos[k]
  localStorage,  \* value under LOCAL_STORAGE_KEY, as getItem returns it
  fase,          \* "loading" before DOMContentLoaded, "ready" after
  resultado      \* what the last handler did: alert shown, list saved, exception

vars == <<ramos, clases, localStorage, fase, resultado>>

Resultado(op, ramo, tipo, lista, leida, faltantes, nombres) ==
  [op |-> op, ramo |-> ramo, tipo |-> tipo, lista |-> lista, leida |-> leida,
   faltantes |-> faltantes, nombres |-> nombres]

SinResultado == Resultado("ninguno", 0, "ninguno", <<>>, <<>>, <<>>, <<>>)

\* ------------------------------------------------------------ the functions
\* cargarRamosAprobados: what the call evaluates to for a stored value
cargarRamosAprobados(ls) ==
  IF Truthy(ls) THEN JSONparse(ls.txt) ELSE JArray(<<>>)

\* guardarRamosAprobados: the stored value after the call
guardarRamosAprobados(aprobados) == Some(JSONstringify(aprobados))

\* the value supports includes / filter / push
EsArreglo(j) == ~j.err /\ j.kind = "array"

\* requisitos of a ramo, as line 37 computes them
Requisitos(ramo) ==
  IF Truthy(ramo.requisitos) THEN Split(ramo.requisitos.txt) ELSE <<>>

\* the forEach body with some() where every() stands
ClasesDeRamoSome(ramo, cls, aprobados) ==
  IF Includes(aprobados, ramo.id)
  THEN (cls \cup {"aprobado"}) \ {"bloqueado"}
  ELSE LET requisitos == Requisitos(ramo)
           bloqueado ==
             /\ Len(requisitos) > 0
             /\ ~(\E k \in 1..Len(requisitos) : Includes(aprobados, requisitos[k]))
       IN IF bloqueado
          THEN (cls \ {"aprobado"}) \cup {"bloqueado"}
          ELSE (cls \ {"aprobado"}) \ {"bloqueado"}

\* the forEach body without the classList.remove('bloqueado') of line 60
ClasesDeRamoNoUnblock(ramo, cls, aprobados) ==
  IF Includes(aprobados, ramo.id)
  THEN (cls \cup {"aprobado"}) \ {"bloqueado"}
  ELSE LET requisitos == Requisitos(ramo)
           bloqueado ==
             /\ Len(requisitos) > 0
             /\ ~RequisitosCumplidos(requisitos, aprobados)
       IN IF bloqueado
          THEN (cls \ {"aprobado"}) \cup {"bloqueado"}
          ELSE cls \ {"aprobado"}

\* the forEach body without the classList.add('bloqueado') of line 58
ClasesDeRamoNoBlock(ramo, cls, aprobados) ==
  IF Includes(aprobados, ramo.id)
  THEN (cls \cup {"aprobado"}) \ {"bloqueado"}
  ELSE cls \ {"aprobado"}

\* the forEach body with the test of line 52 inverted
ClasesDeRamoInverted(ramo, cls, aprobados) ==
  IF Includes(aprobados, ramo.id)
  THEN (cls \cup {"aprobado"}) \ {"bloqueado"}
  ELSE LET requisitos == Requisitos(ramo)
           bloqueado ==
             /\ Len(requisitos) > 0
             /\ RequisitosCumplidos(requisitos, aprobados)
       IN IF bloqueado
          THEN (cls \ {"aprobado"}) \cup {"bloqueado"}
          ELSE (cls \ {"aprobado"}) \ {"bloqueado"}

\* the forEach body with only requisitos[0] tested
ClasesDeRamoFirst(ramo, cls, aprobados) ==
  IF Includes(aprobados, ramo.id)
  THEN (cls \cup {"aprobado"}) \ {"bloqueado"}
  ELSE LET requisitos == Requisitos(ramo)
           bloqueado ==
             /\ Len(requisitos) > 0
             /\ ~Includes(aprobados, requisitos[1])
       IN IF bloqueado
          THEN (cls \ {"aprobado"}) \cup {"bloqueado"}
          ELSE (cls \ {"aprobado"}) \ {"bloqueado"}

\* classList of one ramo after the body of the forEach
ClasesDeRamo(ramo, cls, aprobados) ==
  IF Includes(aprobados, ramo.id)
  THEN (cls \cup {"aprobado"}) \ {"bloqueado"}
  ELSE LET requisitos == Requisitos(ramo)
           bloqueado ==
             /\ Len(requisitos) > 0
             /\ ~RequisitosCumplidos(requisitos, aprobados)
       IN IF bloqueado
          THEN (cls \ {"aprobado"}) \cup {"bloqueado"}
          ELSE (cls \ {"aprobado"}) \ {"bloqueado"}

\* actualizarEstadoVisual: the classLists after the call, and whether it threw
actualizarEstadoVisual(rs, cls, ls) ==
  LET j == cargarRamosAprobados(ls) IN
  IF j.err THEN [threw |-> TRUE, clases |-> cls]
  ELSE IF j.kind # "array" THEN [threw |-> Len(rs) > 0, clases |-> cls]
  ELSE [threw |-> FALSE,
        clases |-> [k \in 1..Len(rs) |-> ClasesDeRamo(rs[k], cls[k], j.arr)]]

\* the toggle with the id of e.target, a child element without id
AlternarTarget(aprobados, ramoId) ==
  IF Includes(aprobados, <<>>)
  THEN SinRamo(aprobados, <<>>)
  ELSE Append(aprobados, <<>>)

\* the toggle without the includes test of line 95: the id is always pushed
AlternarPush(aprobados, ramoId) == Append(aprobados, ramoId)

\* lines 95-101: the list without ramoId if it was there, with it if not
Alternar(aprobados, ramoId) ==
  IF Includes(aprobados, ramoId)
  THEN SinRamo(aprobados, ramoId)
  ELSE Append(aprobados, ramoId)

\* the test of line 75 with the class name misspelt
EstaBloqueadoTypo(cls) == "bloqueada" \in cls

\* line 75: ramo.classList.contains('bloqueado')
EstaBloqueado(cls) == "bloqueado" \in cls

\* document.getElementById(reqId).textContent, or reqId when there is none
Nombre(rs, reqId) ==
  IF \E k \in 1..Len(rs) : rs[k].id = reqId
  THEN rs[CHOOSE k \in 1..Len(rs) :
            rs[k].id = reqId /\ \A m \in 1..(k - 1) : rs[m].id # reqId].texto
  ELSE reqId

\* --------------------------------------------------------------- the actions
Init ==
  /\ ramos \in Catalogos
  /\ clases = [k \in 1..Len(ramos) |-> {"ramo"}]
  /\ localStorage \in StoredValues
  /\ fase = "loading"
  /\ resultado = SinResultado

\* the DOMContentLoaded listener: click listeners, then the first render
DOMContentLoaded ==
  /\ fase = "loading"
  /\ fase' = "ready"
  /\ LET r == actualizarEstadoVisual(ramos, clases, localStorage) IN
       /\ clases' = r.clases
       /\ resultado' = Resultado("init", 0, IF r.threw THEN "excepcion" ELSE "ok",
                                 <<>>, <<>>, <<>>, <<>>)
  /\ UNCHANGED <<ramos, localStorage>>

\* manejarClicRamo with e.currentTarget = ramos[i]; setItemFalla: the call of
\* localStorage.setItem in guardarRamosAprobados throws (quota, storage denied)
clicRamo(i, setItemFalla) ==
  /\ fase = "ready"
  /\ LET ramo == ramos[i]
         j == cargarRamosAprobados(localStorage)
         threw == Resultado("clic", i, "excepcion", <<>>, <<>>, <<>>, <<>>)
     IN
     IF EstaBloqueado(clases[i])
     THEN /\ UNCHANGED <<ramos, clases, localStorage, fase>>
          /\ IF ~ramo.requisitos.present \/ ~EsArreglo(j)
             THEN resultado' = threw
             ELSE LET requisitos == Split(ramo.requisitos.txt)
                      faltantes == Faltantes(requisitos, j.arr)
                      nombresFaltantes ==
                        [k \in 1..Len(faltantes) |-> Nombre(ramos, faltantes[k])]
                  IN resultado' = Resultado("clic", i, "alerta", <<>>, j.arr,
                                            faltantes, nombresFaltantes)
     ELSE IF ~EsArreglo(j) \/ setItemFalla
          THEN /\ resultado' = threw
               /\ UNCHANGED <<ramos, clases, localStorage, fase>>
          ELSE LET aprobados == Alternar(j.arr, ramo.id)
                   guardado == guardarRamosAprobados(aprobados)
                   r == actualizarEstadoVisual(ramos, clases, guardado)
               IN /\ localStorage' = guardado
                  /\ clases' = r.clases
                  /\ resultado' = Resultado("clic", i,
                                            IF r.threw THEN "excepcion" ELSE "ok",
                                            aprobados, j.arr, <<>>, <<>>)
                  /\ UNCHANGED <<ramos, fase>>

\* the click handler when the store accepts the write
manejarClicRamo(i) == clicRamo(i, FALSE)

\* the click handler when the store refuses the write
manejarClicRamoSinCuota(i) == clicRamo(i, TRUE)

Next ==
  \/ DOMContentLoaded
  \/ \E i \in 1..Len(ramos) : manejarClicRamo(i)

Spec == Init /\ [][Next]_vars

\* ------------------------------------------------ a store that may be full
NextCuota ==
  \/ DOMContentLoaded
  \/ \E i \in 1..Len(ramos) : manejarClicRamo(i)
  \/ \E i \in 1..Len(ramos) : manejarClicRamoSinCuota(i)

SpecCuota == Init /\ [][NextCuota]_vars

\* ------------------------------------------- another writer of the same key
\* longest list another page or the user leaves under the key
MaxExternal == 1

ExternalValues ==
  {None, Some(<<"[", QUOTE, "A">>)}
    \cup {Some(JSONstringify(l)) : l \in ListsUpTo(StoredIds, MaxExternal)}

\* the key is rewritten or cleared from outside this page; nothing is rendered
escrituraExterna ==
  /\ fase = "ready"
  /\ localStorage' \in ExternalValues
  /\ UNCHANGED <<ramos, clases, fase, resultado>>

NextExt ==
  \/ DOMContentLoaded
  \/ \E i \in 1..Len(ramos) : manejarClicRamo(i)
  \/ escrituraExterna

SpecExt == Init /\ [][NextExt]_vars

\* ------------------------------------------------ the store functions alone
\* identifiers with the characters JSON has to escape
IdsRT ==
  {A, <<"A", "B">>, <<QUOTE>>, <<"Q", BACKSLASH>>, <<"A", COMMA, "B">>, <<"[", "]">>, <<>>}

InitRT ==
  /\ ramos = CatalogoEscenario
  /\ clases = [k \in 1..Len(ramos) |-> {"ramo"}]
  /\ localStorage = None
  /\ fase = "loading"
  /\ resultado = SinResultado

\* guardarRamosAprobados(l)
Guardar ==
  /\ \E l \in ListsUpTo(IdsRT, MaxSaved) :
       /\ localStorage' = guardarRamosAprobados(l)
       /\ resultado' = Resultado("guardar", 0, "ok", l, <<>>, <<>>, <<>>)
  /\ UNCHANGED <<ramos, clases, fase>>

\* cargarRamosAprobados(); lista keeps the argument of the last save
Cargar ==
  /\ LET j == cargarRamosAprobados(localStorage) IN
       resultado' = [resultado EXCEPT !.op = "cargar",
                                      !.tipo = IF j.err THEN "excepcion" ELSE "ok",
                                      !.leida = j.arr]
  /\ UNCHANGED <<ramos, clases, localStorage, fase>>

NextRT ==
  \/ Guardar
  \/ Cargar

SpecRT == InitRT /\ [][NextRT]_vars

\* ------------------------------------------------- vocabulary of the claims
\* the stored value as the page reads it, and the completed set it stands for
Aprobados == cargarRamosAprobados(localStorage)
Cargable == EsArreglo(Aprobados)
Completed == Elems(Aprobados.arr)

\* the stored value is absent or is not the encoding of a list of identifiers
SinDatos ==
  \/ ~localStorage.present
  \/ localStorage.txt \in Malformed \cup {<<"n", "u", "l", "l">>}

CatalogIds == {ramos[k].id : k \in 1..Len(ramos)}
Items == 1..Len(ramos)
Reqs(k) == Elems(Requisitos(ramos[k]))

\* the status an item shows
Shown(k) ==
  IF "aprobado" \in clases[k] /\ "bloqueado" \in clases[k] THEN "Both"
  ELSE IF "aprobado" \in clases[k] THEN "Completed"
  ELSE IF "bloqueado" \in clases[k] THEN "Locked"
  ELSE "Available"

\* the status of the specification, over a completed set S
LockedUnder(k, S) ==
  /\ ramos[k].id \notin S
  /\ Requisitos(ramos[k]) # <<>>
  /\ \E r \in Reqs(k) : r \notin S

\* C1: an item that is not completed becomes completed only in a step taken
\* while all its requirements are completed; a click on an item that is not
\* completed and has an unmet requirement saves nothing, and is answered with
\* the alert whenever the stored value is a list.
C1_AddOnlyWhenRequirementsMet ==
  [][\A k \in Items :
       /\ (ramos[k].id \notin Completed /\ ramos[k].id \in Completed')
            => Reqs(k) \subseteq Completed
       /\ (manejarClicRamo(k) /\ ramos[k].id \notin Completed
             /\ ~(Reqs(k) \subseteq Completed))
            => /\ localStorage' = localStorage
               /\ resultado'.tipo # "ok"
               /\ Cargable => resultado'.tipo = "alerta"]_vars

\* an item with requirements was added by a click, and a click was refused
C1_Witness ==
  /\ resultado.op = "clic" /\ resultado.tipo = "ok"
  /\ Len(Requisitos(ramos[resultado.ramo])) = 2
  /\ ramos[resultado.ramo].id \in Completed
  /\ \E k \in Items : Shown(k) = "Locked"

\* C2: a click on a Locked item changes neither the completed set, nor the
\* stored value, nor any class.
C2_RejectionChangesNothing ==
  [][\A k \in Items :
       (manejarClicRamo(k) /\ LockedUnder(k, Completed))
         => localStorage' = localStorage /\ Completed' = Completed
            /\ clases' = clases]_vars

\* a click on a Locked item was answered with the alert, something being stored
C2_Witness ==
  /\ resultado.op = "clic" /\ resultado.tipo = "alerta"
  /\ LockedUnder(resultado.ramo, Completed)
  /\ Completed # {}

\* C3: after a render, an item shows Completed iff its id is in the stored
\* list; Locked iff it is not, it has requirements and one of them is not in
\* the list; Available otherwise.  An item without requirements is never Locked.
C3_StatusDefinition ==
  (fase = "ready" /\ Cargable) =>
    \A k \in Items :
      /\ Shown(k) \in {"Completed", "Locked", "Available"}
      /\ Shown(k) = "Completed" <=> ramos[k].id \in Completed
      /\ Shown(k) = "Locked" <=> LockedUnder(k, Completed)
      /\ Shown(k) = "Available" <=>
           (ramos[k].id \notin Completed /\ ~LockedUnder(k, Completed))
      /\ Requisitos(ramos[k]) = <<>> => Shown(k) # "Locked"

\* the three statuses are shown at once, after a click
C3_Witness ==
  /\ resultado.op = "clic" /\ resultado.tipo = "ok"
  /\ \E a, b, c \in Items :
       /\ Shown(a) = "Completed" /\ Shown(b) = "Locked" /\ Shown(c) = "Available"
       /\ Requisitos(ramos[c]) # <<>>

\* C4 as stated: an item with requirements is Locked iff one of them is not
\* completed.
C4_Original ==
  (fase = "ready" /\ Cargable) =>
    \A k \in Items :
      Requisitos(ramos[k]) # <<>> =>
        (Shown(k) = "Locked" <=> \E r \in Reqs(k) : r \notin Completed)

\* C4 amended: an item with requirements that is not itself completed is
\* Locked iff one of its requirements is not completed; a completed item is
\* not Locked, met requirements or not.
C4_LockCorrectness ==
  (fase = "ready" /\ Cargable) =>
    \A k \in Items :
      Requisitos(ramos[k]) # <<>> =>
        /\ ramos[k].id \notin Completed =>
             (Shown(k) = "Locked" <=> \E r \in Reqs(k) : r \notin Completed)
        /\ ramos[k].id \in Completed => Shown(k) # "Locked"

\* a completed item with an unmet requirement, next to a Locked one
C4_Witness ==
  /\ fase = "ready" /\ Cargable
  /\ \E k \in Items :
       /\ ramos[k].id \in Completed
       /\ \E r \in Reqs(k) : r \notin Completed
       /\ Shown(k) = "Completed"
  /\ \E k \in Items : Shown(k) = "Locked"

\* the completed set with the item k toggled
Toggled(k, S) ==
  IF ramos[k].id \in S THEN S \ {ramos[k].id} ELSE S \cup {ramos[k].id}

\* C5: a click on an item that is not Locked changes the completed set by
\* that item alone, and when it returns the stored value is the encoding of
\* the new completed set.
C5_ToggleChangesOneItem ==
  [][\A k \in Items :
       (manejarClicRamo(k) /\ ~LockedUnder(k, Completed))
         => /\ resultado'.tipo = "ok"
            /\ Cargable'
            /\ Completed' = Toggled(k, Completed)]_vars

\* C6: with an absent or malformed stored value the load yields the empty
\* list and no handler ends in an exception.
C6_LoadNeverFails ==
  (fase = "ready" /\ SinDatos) =>
    /\ cargarRamosAprobados(localStorage) = JArray(<<>>)
    /\ resultado.tipo # "excepcion"

\* C7: whatever was written to the key since the last render, a click on an
\* item is answered with the alert exactly when the item is Locked under the
\* list that is stored at the moment of the click (no handler having failed
\* before).
C7_DecidesOnStoredList ==
  [][\A k \in Items :
       (manejarClicRamo(k) /\ Cargable /\ resultado.tipo # "excepcion")
         => (resultado'.tipo = "alerta" <=> LockedUnder(k, Completed))]_vars

\* C8: a step adds only identifiers of catalog items to the completed set, so
\* a completed set of catalog items stays one.
C8_OnlyCatalogIdsAdded ==
  [][/\ (Completed' \ Completed) \subseteq CatalogIds
     /\ Completed \subseteq CatalogIds => Completed' \subseteq CatalogIds]_vars

\* a click added an item to a completed set that holds catalog items only
C8_Witness ==
  /\ resultado.op = "clic" /\ resultado.tipo = "ok"
  /\ Len(resultado.lista) > Len(resultado.leida)
  /\ Cardinality(Completed) >= 2
  /\ Completed \subseteq CatalogIds

\* the items with a requirement that no element of the page carries
UnknownReqs(k) == Reqs(k) \ CatalogIds

\* C9 as stated: whatever list was loaded, an item with an unknown
\* requirement that is not in the list is shown Locked after every step and
\* is not added to it.
C9_Original ==
  [][\A k \in Items :
       (UnknownReqs(k) # {} /\ Cargable /\ ramos[k].id \notin Completed)
         => Shown(k)' = "Locked" /\ ramos[k].id \notin Completed']_vars

\* C9 amended: while the stored list holds neither the item nor its unknown
\* requirement, the next state holds neither and shows the item Locked.
C9_LockedWhileUnknownAbsent ==
  [][\A k \in Items : \A r \in UnknownReqs(k) :
       (Cargable /\ ramos[k].id \notin Completed /\ r \notin Completed)
         => /\ Cargable'
            /\ ramos[k].id \notin Completed' /\ r \notin Completed'
            /\ Shown(k)' = "Locked"]_vars

\* a click on D (which needs the unknown X) was refused after other items
\* had been completed
C9_Witness ==
  /\ resultado.op = "clic" /\ resultado.tipo = "alerta"
  /\ UnknownReqs(resultado.ramo) # {}
  /\ resultado.faltantes = <<X>>
  /\ \E k \in Items : Shown(k) = "Completed"

\* C10: what a load returns after a save has the members of the saved list,
\* whatever was stored before that save.
C10_RoundTrip ==
  resultado.op = "cargar" =>
    /\ resultado.tipo = "ok"
    /\ Elems(resultado.leida) = Elems(resultado.lista)

\* a list of two identifiers, one with a quote in it, was saved and loaded
C10_Witness ==
  /\ resultado.op = "cargar"
  /\ Len(resultado.lista) = 2
  /\ resultado.lista[1] # resultado.lista[2]
  /\ \E k \in 1..2 : Includes(resultado.lista[k], QUOTE)
  /\ resultado.leida = resultado.lista

\* the status a classList shows
ShownOf(cls) ==
  IF "aprobado" \in cls /\ "bloqueado" \in cls THEN "Both"
  ELSE IF "aprobado" \in cls THEN "Completed"
  ELSE IF "bloqueado" \in cls THEN "Locked"
  ELSE "Available"

\* the status item k gets from a render of the list aprobados
StatusWith(k, aprobados) == ShownOf(ClasesDeRamo(ramos[k], clases[k], aprobados))

\* the three statuses of a page of three items
Statuses == <<Shown(1), Shown(2), Shown(3)>>

\* C11: an item that shows Available or Completed is not Locked when the
\* statuses are computed with one more identifier, whichever it is, in the list.
C11_MonotoneUnderAddition ==
  (fase = "ready" /\ Cargable) =>
    \A k \in Items : \A y \in CatalogIds \cup StoredIds :
      Shown(k) \in {"Available", "Completed"} =>
        StatusWith(k, Append(Aprobados.arr, y)) # "Locked"

\* an item with requirements shows Available, and one more identifier in the
\* list would unlock another item
C11_Witness ==
  /\ fase = "ready" /\ Cargable
  /\ \E k, m \in Items : \E y \in CatalogIds \ Completed :
       /\ Shown(k) = "Available" /\ Requisitos(ramos[k]) # <<>>
       /\ Shown(m) = "Locked"
       /\ StatusWith(m, Append(Aprobados.arr, y)) = "Available"
       /\ StatusWith(k, Append(Aprobados.arr, y)) # "Locked"

\* the page of the scenario with nothing completed
Escenario == ramos = CatalogoEscenario /\ fase = "ready" /\ Cargable

\* C12: on the catalog A:[], B:[A], C:[A,B] with nothing stored the statuses
\* are Available, Locked, Locked; a click on B is refused with missing [A]; a
\* click on A stores [A] and shows Completed, Available, Locked; a click on B
\* then stores [A,B] and shows C Available; a click on A then stores [B] and
\* shows Available, Completed, Locked.
C12_Scenario ==
  [][Escenario =>
       /\ Aprobados.arr = <<>> =>
            /\ Statuses = <<"Available", "Locked", "Locked">>
            /\ manejarClicRamo(2) =>
                 /\ resultado'.tipo = "alerta"
                 /\ resultado'.faltantes = <<A>>
                 /\ localStorage' = localStorage
            /\ manejarClicRamo(1) =>
                 /\ Aprobados'.arr = <<A>>
                 /\ Statuses' = <<"Completed", "Available", "Locked">>
       /\ (Aprobados.arr = <<A>> /\ manejarClicRamo(2)) =>
            /\ Aprobados'.arr = <<A, B>>
            /\ Shown(3)' = "Available"
       /\ (Aprobados.arr = <<A, B>> /\ manejarClicRamo(1)) =>
            /\ Aprobados'.arr = <<B>>
            /\ Statuses' = <<"Available", "Completed", "Locked">>]_vars

\* the last state of the scenario, reached by the demotion of A from [A,B]
C12_Witness ==
  /\ Escenario
  /\ resultado.op = "clic" /\ resultado.ramo = 1 /\ resultado.tipo = "ok"
  /\ resultado.leida = <<A, B>>
  /\ Aprobados.arr = <<B>>
  /\ Statuses = <<"Available", "Completed", "Locked">>

\* item k lists item i among its requirements
DependsOn(k, i) == ramos[i].id \in Reqs(k)

\* a click on item i that takes it out of the stored list
Demotes(i) ==
  /\ manejarClicRamo(i) /\ Cargable
  /\ ramos[i].id \in Completed /\ ramos[i].id \notin Completed'

\* C13 as stated: after a click demotes an item, every item that requires it
\* shows Locked.
C13_Original ==
  [][\A i, k \in Items :
       (Demotes(i) /\ DependsOn(k, i)) => Shown(k)' = "Locked"]_vars

\* C13 amended: after a click demotes an item, every item that requires it
\* and is not itself in the stored list shows Locked; one that is in the list
\* still shows Completed.
C13_DependentsRelocked ==
  [][\A i, k \in Items :
       (Demotes(i) /\ DependsOn(k, i)) =>
         /\ ramos[k].id \notin Completed' => Shown(k)' = "Locked"
         /\ ramos[k].id \in Completed' => Shown(k)' = "Completed"]_vars

\* an item was demoted; one dependent shows Locked, another stays Completed
C13_Witness ==
  /\ resultado.op = "clic" /\ resultado.tipo = "ok"
  /\ Includes(resultado.leida, ramos[resultado.ramo].id)
  /\ ramos[resultado.ramo].id \notin Completed
  /\ \E k, m \in Items :
       /\ DependsOn(k, resultado.ramo) /\ Shown(k) = "Locked"
       /\ Len(Requisitos(ramos[k])) = 2
       /\ DependsOn(m, resultado.ramo) /\ Shown(m) = "Completed"

\* what a render of the stored value shows: the classes are a fixed point
Consistent ==
  Cargable => actualizarEstadoVisual(ramos, clases, localStorage).clases = clases

\* C14: a click whose write to the store fails still returns normally, and
\* the classes agree with the stored value afterwards.
C14_WriteFailureNotPropagated ==
  [][\A i \in Items :
       (manejarClicRamoSinCuota(i) /\ Cargable /\ ~EstaBloqueado(clases[i]))
         => resultado'.tipo # "excepcion" /\ Consistent']_vars

\* C15: the missing list of a refused click is the requirement list of the
\* item without the identifiers that are in the stored list, in the order of
\* the requirement list, and it is not empty; an identifier that no element
\* carries is reported as it is.
C15_MissingList ==
  (resultado.op = "clic" /\ resultado.tipo = "alerta") =>
    LET reqs == Requisitos(ramos[resultado.ramo]) IN
      /\ resultado.faltantes = SelectSeq(reqs, LAMBDA r : r \notin Completed)
      /\ resultado.faltantes # <<>>
      /\ Len(resultado.nombres) = Len(resultado.faltantes)
      /\ \A k \in 1..Len(resultado.faltantes) :
           resultado.faltantes[k] \notin CatalogIds
             => resultado.nombres[k] = resultado.faltantes[k]

\* a click on an item with two requirements was refused with one of them missing
C15_Witness ==
  /\ resultado.op = "clic" /\ resultado.tipo = "alerta"
  /\ Len(Requisitos(ramos[resultado.ramo])) = 2
  /\ Len(resultado.faltantes) = 1
  /\ resultado.faltantes[1] = Requisitos(ramos[resultado.ramo])[2]

\* the status of the specification for item k over the completed set S
StatusUnder(k, S) ==
  IF ramos[k].id \in S THEN "Completed"
  ELSE IF LockedUnder(k, S) THEN "Locked"
  ELSE "Available"

\* C16: after the first render and after every click each item shows the
\* status computed from the catalog and the stored completed set (the empty
\* set when nothing decodable is stored); a second render changes nothing;
\* no item shows Completed and Locked at once.
C16_ShownIsComputed ==
  fase = "ready" =>
    /\ \A k \in Items : Shown(k) = StatusUnder(k, Completed)
    /\ Consistent

\* the items that item k requires
ReqItems(k) == {m \in Items : DependsOn(k, m)}

\* the items S with the items they require
WithReqs(S) == S \cup UNION {ReqItems(m) : m \in S}

\* the items reached from S along at most n requirements
RECURSIVE Descend(_, _)
Descend(S, n) ==
  IF n = 0 THEN S
  ELSE CHOOSE R \in {Descend(T, n - 1) : T \in {WithReqs(S)}} : TRUE

\* item k is on a cycle of the requirement graph: a chain of requirements
\* leads from k back to k
OnCycle(k) == k \in Descend(ReqItems(k), Len(ramos))

CycleItems == {k \in Items : OnCycle(k)}

\* C17 as stated: every item on a cycle shows Locked in every state after the
\* first render.
C17_Original ==
  (fase = "ready" /\ Cargable) =>
    \A k \in CycleItems : Shown(k) = "Locked"

\* C17 amended: while the stored list holds no item of a cycle, the next
\* state holds none either and shows every item of the cycle Locked.
C17_CycleLockedWhileAbsent ==
  [][(Cargable /\ \A k \in CycleItems : ramos[k].id \notin Completed)
       => /\ Cargable'
          /\ \A k \in CycleItems :
               ramos[k].id \notin Completed' /\ Shown(k)' = "Locked"]_vars

\* a click on an item of the cycle was refused while other items are
\* completed and the whole cycle shows Locked
C17_Witness ==
  /\ resultado.op = "clic" /\ resultado.tipo = "alerta"
  /\ resultado.ramo \in CycleItems
  /\ Cardinality(CycleItems) = 2
  /\ \A k \in CycleItems : Shown(k) = "Locked"
  /\ \E k \in Items : Shown(k) = "Completed"

\* no element of the list occurs twice
NoDup(arr) == \A a, b \in 1..Len(arr) : arr[a] = arr[b] => a = b

\* C18: a click leaves a stored list without duplicates without duplicates,
\* and a click on a completed item leaves no occurrence of it in the list.
C18_NoDuplicates ==
  [][/\ (Cargable /\ NoDup(Aprobados.arr))
          => (Cargable' /\ NoDup(Aprobados'.arr))
     /\ \A i \in Items :
          (manejarClicRamo(i) /\ Cargable /\ ramos[i].id \in Completed)
            => /\ resultado'.tipo = "ok"
               /\ ~Includes(Aprobados'.arr, ramos[i].id)]_vars

\* an item was demoted from a duplicate-free list of three
C18_Witness ==
  /\ resultado.op = "clic" /\ resultado.tipo = "ok"
  /\ Len(resultado.leida) = 3 /\ NoDup(resultado.leida)
  /\ Aprobados.arr = resultado.lista
  /\ Len(resultado.lista) = 2 /\ NoDup(resultado.lista)

\* the catalog has no cycle and requires only identifiers of its own items
CatalogoSano == CycleItems = {} /\ \A k \in Items : UnknownReqs(k) = {}

\* C19: on a catalog without cycles and without unknown requirements, in
\* every state after the first render where an item is not completed some
\* item shows Available, and a click on an item that shows Available is
\* accepted and adds it (so that the state with every item completed can be
\* reached by such clicks).
C19_NoDeadEnd ==
  [][(fase = "ready" /\ CatalogoSano) =>
       /\ (\E k \in Items : ramos[k].id \notin Completed)
            => \E k \in Items : Shown(k) = "Available"
       /\ \A k \in Items :
            (manejarClicRamo(k) /\ Shown(k) = "Available")
              => /\ resultado'.tipo = "ok"
                 /\ ramos[k].id \in Completed']_vars

====
